---- MODULE Spec2Model ----
(***************************************************************************)
(* pcan-id: CLI to modify serial number and device id of Peak CAN USB      *)
(* devices (src/pcan-id.c).  The model follows main() statement by         *)
(* statement: option parsing, libusb initialisation, device enumeration,   *)
(* interface claim, the bulk transfers of the chosen action and cleanup.   *)
(*                                                                         *)
(* Numbers wider than 31 bits are kept as tuples of base-256 digits, least *)
(* significant digit first: a uint32_t is a 4-tuple, the long long of      *)
(* strtoll an 8-tuple.                                                     *)
(***************************************************************************)
EXTENDS Integers, Sequences, FiniteSets, TLC

\* ------------------------------------------------------------------ bounds
\* number of options on the command line
MaxArgs == 2
\* number of devices on the bus
MaxDevices == 2

\* ------------------------------------------------------- program constants
PktLen == 16
UCHAR_MAX == 255
EP_OUT == 1
EP_IN == 129

\* ------------------------------------------------------------- arithmetic
Zeros(n) == [i \in 1..n |-> 0]

\* the digits of v, least significant first, cut or zero-extended to n digits
Resize(v, n) == [i \in 1..n |-> IF i <= Len(v) THEN v[i] ELSE 0]

\* v * base + add on digit tuples; carry is what does not fit in Len(v) digits
MulAdd(v, base, add) ==
    LET RECURSIVE Go(_, _, _)
        Go(i, carry, acc) ==
            IF i > Len(v) THEN [d |-> acc, carry |-> carry]
            ELSE LET t == v[i] * base + carry
                 IN  Go(i + 1, t \div 256, Append(acc, t % 256))
    IN  Go(1, add, <<>>)

\* the digit tuple of a small natural number
ToDigits(n, len) ==
    LET RECURSIVE Go(_, _)
        Go(m, acc) == IF Len(acc) = len THEN acc
                      ELSE Go(m \div 256, Append(acc, m % 256))
    IN  Go(n, <<>>)

\* v >= n for a digit tuple v and a natural n < 256
GeqSmall(v, n) == v[1] >= n \/ \E i \in 2..Len(v) : v[i] # 0

Reverse(s) == [i \in 1..Len(s) |-> s[Len(s) + 1 - i]]

\* ------------------------------------------------------------------ strtoll
NUL == "NUL"
DecChars == <<"0", "1", "2", "3", "4", "5", "6", "7", "8", "9">>
HexChars == DecChars \o <<"a", "b", "c", "d", "e", "f">>

CharAt(arg, i) == IF i <= Len(arg) THEN arg[i] ELSE NUL

IsDigitIn(c, base) == \E k \in 1..base : HexChars[k] = c
DigitVal(c) == (CHOOSE k \in 1..16 : HexChars[k] = c) - 1

LLONG_MAX == <<255, 255, 255, 255, 255, 255, 255, 127>>

\* strtoll(arg, &endptr, base) for an arg that starts with a digit:
\* val (8 digits), erange (errno == ERANGE), endptr (number of characters used)
strtoll(arg, base) ==
    LET start == IF base = 16 /\ CharAt(arg, 1) = "0" /\ CharAt(arg, 2) = "x"
                    /\ IsDigitIn(CharAt(arg, 3), 16)
                 THEN 3 ELSE 1
        RECURSIVE Go(_, _, _)
        Go(i, val, ovf) ==
            IF ~IsDigitIn(CharAt(arg, i), base)
            THEN [val |-> IF ovf THEN LLONG_MAX ELSE val, erange |-> ovf, endptr |-> i - 1]
            ELSE LET r == MulAdd(val, base, DigitVal(CharAt(arg, i)))
                 IN  Go(i + 1, r.d, ovf \/ r.carry # 0 \/ r.d[8] >= 128)
    IN  Go(start, Zeros(8), FALSE)

\* char parse_long(char *arg, uint32_t *value): ret is the return value,
\* value what is stored in *value (ret = 0), val the long long before the store
parse_long(arg) ==
    IF IsDigitIn(CharAt(arg, 1), 10)
    THEN LET s == IF CharAt(arg, 1) = "0" /\ CharAt(arg, 2) = "x"
                  THEN strtoll(arg, 16) ELSE strtoll(arg, 10)
         IN  IF s.erange /\ s.val = LLONG_MAX
             THEN [ret |-> 1, err |-> "range error", val |-> s.val, value |-> Zeros(4)]
             ELSE IF s.endptr = 0
             THEN [ret |-> 1, err |-> "No digits were found", val |-> s.val, value |-> Zeros(4)]
             ELSE [ret |-> 0, err |-> "", val |-> s.val, value |-> Resize(s.val, 4)]
    ELSE [ret |-> 1, err |-> "invalid argument", val |-> Zeros(8), value |-> Zeros(4)]

\* ------------------------------------------------------------------ inputs
\* optarg values tried with -d, -i and -s
IndexArgs == { <<"1">>, <<"2", "5", "6">>, <<"x">> }
IdArgs == { <<"0", "x", "2", "a">>, <<"2", "5", "5">>, <<"2", "5", "6">>,
            <<"4", "2", "9", "4", "9", "6", "7", "3", "0", "1">>,
            <<"9", "9", "9", "9", "9", "9", "9", "9", "9", "9",
              "9", "9", "9", "9", "9", "9", "9", "9", "9", "9">> }
SerialArgs == { <<"0", "x", "0", "1", "0", "2", "0", "3", "0", "4">>,
                <<"4", "2", "9", "4", "9", "6", "7", "2", "9", "5", "z">>, <<>> }
NoArg == <<"-">>

Options == {"h", "d", "s", "i", "l", "q", "?"}
ArgsOf(o) == CASE o = "d" -> IndexArgs
               [] o = "i" -> IdArgs
               [] o = "s" -> SerialArgs
               [] OTHER -> {NoArg}

\* struct pcan_type pcan_types[]
pcan_types == << [name |-> "PCAN-USB", vendor_id |-> 3186, product_id |-> 12] >>

\* the devices that may sit on the bus: a PCAN-USB adapter (with a manufacturer
\* string and no product string) and a device of the same vendor that is not in
\* the catalog
DeviceKinds == { [idVendor |-> 3186, idProduct |-> 12, iManufacturer |-> 1, iProduct |-> 0],
                 [idVendor |-> 3186, idProduct |-> 13, iManufacturer |-> 1, iProduct |-> 2] }
DeviceLists == UNION { [1..n -> DeviceKinds] : n \in 0..MaxDevices }

\* payload bytes 2..5 of the packets a device answers with
RespPayloads == { <<42, 9, 9, 9>>, <<4, 3, 2, 1>> }
\* most bytes a failed IN transfer has stored in the buffer
MaxPartial == 2

\* ------------------------------------------------------------------- state
VARIABLES
    host,          \* byte order of the build: "little" or "big"
    devices,       \* the bus, in the order libusb_get_device_list returns it
    pc,            \* position in main
    exit_status,   \* process exit status, -1 while running
    exit_line,     \* source line of the return/exit taken, 0 while running
    nopts,         \* options getopt has returned so far
    opt,           \* last option character returned by getopt
    optarg,        \* its argument
    last_flag,     \* last of i, s, l, q on the command line so far ("0": none)
    serial_arg,    \* the value the last -s was given, as parse_long stored it
    action,        \* unsigned char action
    device_idx,    \* uint32_t device_idx
    device_id,     \* uint8_t device_id
    serial_nr,     \* uint32_t serial_nr
    pkt,           \* unsigned char pkt[16]
    device,        \* ctx->device: position in devices, 0 = NULL
    dev_handle,    \* ctx->dev_handle: position of the opened device, 0 = NULL
    open_handles,  \* handles opened and not closed
    claimed,       \* interfaces claimed and not released
    usb,           \* the libusb calls made so far, in order
    stdout,        \* lines written to standard output, each a tuple of its fields
    stderr         \* messages written to standard error

vars == << host, devices, pc, exit_status, exit_line, nopts, opt, optarg, last_flag,
           serial_arg,
           action, device_idx, device_id, serial_nr, pkt, device, dev_handle,
           open_handles, claimed, usb, stdout, stderr >>

\* a variable that has not been assigned yet holds no digits
UNINIT == <<>>

Init ==
    /\ host \in {"little", "big"}
    /\ devices \in DeviceLists
    /\ pc = "getopt"
    /\ exit_status = -1
    /\ exit_line = 0
    /\ nopts = 0
    /\ opt = NUL
    /\ optarg = NoArg
    /\ last_flag = "0"
    /\ serial_arg = UNINIT
    /\ action = "0"
    /\ device_idx = Zeros(4)
    /\ device_id = UNINIT
    /\ serial_nr = UNINIT
    /\ pkt = UNINIT
    /\ device = 0
    /\ dev_handle = 0
    /\ open_handles = {}
    /\ claimed = {}
    /\ usb = <<>>
    /\ stdout = <<>>
    /\ stderr = <<>>

\* return or exit() at the given source line
Exit(line, status) ==
    /\ pc' = "exited"
    /\ exit_line' = line
    /\ exit_status' = status

Running(next) ==
    /\ pc' = next
    /\ UNCHANGED << exit_line, exit_status >>

\* ------------------------------------------------------- option parsing
\* the mutation for C6: the first action flag is kept
set_action_first(cur, o) == IF cur = "0" THEN o ELSE cur

\* action = 's' / 'i' / 'l' / 'q', lines 205, 217, 220, 223
set_action(cur, o) == o

\* one iteration of the getopt loop, lines 191-230
Getopt ==
    /\ pc = "getopt"
    /\ nopts < MaxArgs
    /\ \E o \in Options : \E a \in ArgsOf(o) :
        LET p == parse_long(a) IN
        /\ nopts' = nopts + 1
        /\ opt' = o
        /\ optarg' = a
        /\ last_flag' = IF o \in {"i", "s", "l", "q"} THEN o ELSE last_flag
        /\ serial_arg' = IF o = "s" /\ p.ret = 0 THEN p.value ELSE serial_arg
        /\ CASE o = "h" ->
                /\ stdout' = Append(stdout, <<"usage">>)
                /\ Exit(195, 0)
                /\ UNCHANGED << action, device_idx, device_id, serial_nr, stderr >>
             [] o = "d" ->
                IF p.ret # 0
                THEN /\ stderr' = Append(stderr, p.err)
                     /\ Exit(198, 1)
                     /\ UNCHANGED << action, device_idx, device_id, serial_nr, stdout >>
                ELSE /\ device_idx' = p.value
                     /\ Running("getopt")
                     /\ UNCHANGED << action, device_id, serial_nr, stdout, stderr >>
             [] o = "s" ->
                IF p.ret # 0
                THEN /\ stderr' = Append(stderr, p.err)
                     /\ Exit(203, 1)
                     /\ UNCHANGED << action, device_idx, device_id, serial_nr, stdout >>
                ELSE /\ serial_nr' = p.value
                     /\ action' = set_action(action, "s")
                     /\ Running("getopt")
                     /\ UNCHANGED << device_idx, device_id, stdout, stderr >>
             [] o = "i" ->
                IF p.ret # 0
                THEN /\ stderr' = Append(stderr, p.err)
                     /\ Exit(209, 1)
                     /\ UNCHANGED << action, device_idx, device_id, serial_nr, stdout >>
                ELSE IF GeqSmall(p.value, UCHAR_MAX)
                THEN /\ stderr' = Append(stderr, "invalid device id")
                     /\ Exit(213, 1)
                     /\ UNCHANGED << action, device_idx, device_id, serial_nr, stdout >>
                ELSE /\ device_id' = Resize(p.value, 1)
                     /\ action' = set_action(action, "i")
                     /\ Running("getopt")
                     /\ UNCHANGED << device_idx, serial_nr, stdout, stderr >>
             [] o = "l" ->
                /\ action' = set_action(action, "l")
                /\ Running("getopt")
                /\ UNCHANGED << device_idx, device_id, serial_nr, stdout, stderr >>
             [] o = "q" ->
                /\ action' = set_action(action, "q")
                /\ Running("getopt")
                /\ UNCHANGED << device_idx, device_id, serial_nr, stdout, stderr >>
             [] OTHER ->
                /\ stderr' = stderr \o <<"unknown option", "usage">>
                /\ Exit(228, 1)
                /\ UNCHANGED << action, device_idx, device_id, serial_nr, stdout >>
    /\ UNCHANGED << host, devices, pkt, device, dev_handle, open_handles, claimed, usb >>

\* getopt returns -1; lines 232-236
GetoptEnd ==
    /\ pc = "getopt"
    /\ IF action = "0"
       THEN /\ stderr' = stderr \o <<"Please specify either -l, -s or -i.", "usage">>
            /\ Exit(235, 1)
       ELSE /\ Running("libusb_init")
            /\ UNCHANGED stderr
    /\ UNCHANGED << host, devices, nopts, opt, optarg, last_flag, serial_arg, action, device_idx,
                    device_id, serial_nr, pkt, device, dev_handle, open_handles,
                    claimed, usb, stdout >>

\* ---------------------------------------------------------- enumeration
\* lines 238-247: libusb_init
LibusbInit ==
    /\ pc = "libusb_init"
    /\ \E ok \in BOOLEAN :
        /\ usb' = Append(usb, [op |-> "init", ok |-> ok])
        /\ IF ok
           THEN /\ Running("browse")
                /\ UNCHANGED stderr
           ELSE /\ stderr' = Append(stderr, "error initializing libusb")
                /\ Exit(244, 1)
    /\ UNCHANGED << host, devices, nopts, opt, optarg, last_flag, serial_arg, action, device_idx,
                    device_id, serial_nr, pkt, device, dev_handle, open_handles,
                    claimed, stdout >>

\* the uint32_t argument converted to the uint8_t parameter device_idx (line 66)
to_uint8(v) == v[1]

\* position in pcan_types of the entry a device descriptor matches, 0 if none
\* (lines 93-101)
supported(descr) ==
    IF \E k \in 1..Len(pcan_types) :
            /\ pcan_types[k].vendor_id = descr.idVendor
            /\ pcan_types[k].product_id = descr.idProduct
    THEN CHOOSE k \in 1..Len(pcan_types) :
            /\ pcan_types[k].vendor_id = descr.idVendor
            /\ pcan_types[k].product_id = descr.idProduct
            /\ \A j \in 1..(k - 1) : ~(/\ pcan_types[j].vendor_id = descr.idVendor
                                       /\ pcan_types[j].product_id = descr.idProduct)
    ELSE 0

\* the loop of browse_devices, lines 81-123.  idx is the uint8_t device_idx,
\* fail_at the position whose libusb_get_device_descriptor fails (0: none),
\* open_ok the result of libusb_open.
browse_devices(devs, idx, list_devices, fail_at, open_ok) ==
    LET RECURSIVE Go(_, _, _)
        Go(c, i, st) ==
            IF c > Len(devs) THEN st
            ELSE IF c = fail_at
            THEN [st EXCEPT !.err = Append(@, "failed to get device descriptor")]
            ELSE LET p == supported(devs[c]) IN
                 IF p = 0 THEN Go(c + 1, i, st)
                 ELSE LET st1 == IF list_devices
                                 THEN [st EXCEPT !.out = Append(@, <<"list", i, c, pcan_types[p].name>>)]
                                 ELSE st
                          st2 == IF i = idx
                                 THEN [st1 EXCEPT
                                        !.pcan_type = p,
                                        !.device = c,
                                        !.dev_handle = IF open_ok THEN c ELSE @,
                                        !.opened = IF open_ok THEN @ \cup {c} ELSE @,
                                        !.calls = Append(@, [op |-> "open", dev |-> c, ok |-> open_ok]),
                                        !.out = IF open_ok THEN @
                                                ELSE Append(@, <<"error opening device">>)]
                                 ELSE st1
                      IN  Go(c + 1, i + 1, st2)
    IN  Go(1, 0, [device |-> 0, pcan_type |-> 0, dev_handle |-> 0, opened |-> {},
                  calls |-> <<>>, out |-> <<>>, err |-> <<>>])

\* lines 249-259: the call of browse_devices and the checks after it
BrowseDevices ==
    /\ pc = "browse"
    /\ \E list_ok \in BOOLEAN, fail_at \in 0..Len(devices), open_ok \in BOOLEAN :
        IF ~list_ok
        THEN /\ usb' = Append(usb, [op |-> "get_device_list", ok |-> FALSE])
             /\ stderr' = Append(stderr, "error retrieving list of devices")
             /\ Exit(251, 1)
             /\ UNCHANGED << device, dev_handle, open_handles, stdout >>
        ELSE LET b == browse_devices(devices, to_uint8(device_idx), action = "l",
                                     fail_at, open_ok)
             IN  /\ usb' = Append(usb, [op |-> "get_device_list", ok |-> TRUE]) \o b.calls
                 /\ device' = b.device
                 /\ dev_handle' = b.dev_handle
                 /\ open_handles' = open_handles \cup b.opened
                 /\ stdout' = stdout \o b.out
                 /\ IF b.dev_handle = 0
                    THEN /\ stderr' = stderr \o b.err \o <<"error, requested device not found">>
                         /\ Exit(255, 1)
                    ELSE /\ stderr' = stderr \o b.err
                         /\ IF action = "l" THEN Exit(259, 0) ELSE Running("claim")
    /\ UNCHANGED << host, devices, nopts, opt, optarg, last_flag, serial_arg, action, device_idx,
                    device_id, serial_nr, pkt, claimed >>

\* lines 261-265: claim interface 0 and reset the device; both results are ignored
ClaimInterface ==
    /\ pc = "claim"
    /\ \E ok \in BOOLEAN :
        /\ claimed' = IF ok THEN claimed \cup {0} ELSE claimed
        /\ usb' = usb \o << [op |-> "claim", ok |-> ok], [op |-> "reset", ok |-> TRUE] >>
    /\ Running("descr")
    /\ UNCHANGED << host, devices, nopts, opt, optarg, last_flag, serial_arg, action, device_idx,
                    device_id, serial_nr, pkt, device, dev_handle, open_handles,
                    stdout, stderr >>

\* lines 268-290: device and config descriptor, manufacturer and product strings
GetDescriptors ==
    /\ pc = "descr"
    /\ \E dev_ok \in BOOLEAN, cfg_ok \in BOOLEAN :
        IF ~dev_ok
        THEN /\ stderr' = Append(stderr, "failed to get device descriptor")
             /\ Exit(271, 1)
             /\ UNCHANGED stdout
        ELSE IF ~cfg_ok
        THEN /\ stderr' = Append(stderr, "error, get_config_descriptor failed")
             /\ Exit(277, 1)
             /\ UNCHANGED stdout
        ELSE /\ stdout' = stdout
                    \o (IF devices[device].iManufacturer # 0 THEN << <<"iManufacturer">> >> ELSE <<>>)
                    \o (IF devices[device].iProduct # 0 THEN << <<"iProduct">> >> ELSE <<>>)
                    \o << <<"">> >>
             /\ Running("action")
             /\ UNCHANGED stderr
    /\ UNCHANGED << host, devices, nopts, opt, optarg, last_flag, serial_arg, action, device_idx,
                    device_id, serial_nr, pkt, device, dev_handle, open_handles,
                    claimed, usb >>

\* ------------------------------------------------------- command packets
\* the mutation for C7: the buffer is not cleared before a packet is built
memset_skipped(buf) == IF buf = UNINIT THEN Zeros(PktLen) ELSE buf

\* memset(pkt, 0, sizeof(pkt)), lines 294, 311, 334, 369
memset(buf) == Zeros(PktLen)

\* buf with bytes stored from (0-based) offset off on
store(buf, off, bytes) ==
    [i \in 1..Len(buf) |-> IF off < i /\ i <= off + Len(bytes) THEN bytes[i - off] ELSE buf[i]]

\* the mutation for C4: the value is copied in host byte order
htole32_omitted(h, v) == v

\* htole32 and le32toh of <endian.h> on a build with byte order h
htole32(h, v) == IF h = "little" THEN v ELSE Reverse(v)
le32toh(h, v) == IF h = "little" THEN v ELSE Reverse(v)

\* the bytes of a uint32_t object in memory, lowest address first (what memcpy
\* reads from &serial_nr), and the value of the object holding given bytes
object_bytes(h, v) == IF h = "little" THEN v ELSE Reverse(v)
object_value(h, b) == IF h = "little" THEN b ELSE Reverse(b)

\* lines 294-297
set_device_id_pkt(buf, id) == store(memset(buf), 0, <<4, 2>> \o id)

\* line 315
serial_to_wire(h, serial) == htole32(h, serial)

\* lines 311-316, with serial already converted by line 315
set_serial_pkt(h, buf, wire) == store(store(memset(buf), 0, <<6, 2>>), 2, object_bytes(h, wire))

\* lines 334-336 (type 4) and 369-371 (type 6)
get_pkt(buf, type) == store(memset(buf), 0, <<type, 1>>)

\* the mutation for C3: the device id is read one byte too early
decode_device_id_byte1(buf) == <<buf[2]>>

\* line 360
decode_device_id(buf) == <<buf[3]>>

\* lines 395-397
decode_serial(h, buf) == le32toh(h, object_value(h, SubSeq(buf, 3, 6)))

\* the packets a device may answer a request with: the request's two header
\* bytes and a payload
Responses(req) == { store(store(Zeros(PktLen), 0, SubSeq(req, 1, 2)), 2, p) : p \in RespPayloads }

\* an OUT transfer of the whole buffer, and an IN transfer that received data
BulkOut(buf, ok) == [op |-> "bulk", ep |-> EP_OUT, data |-> buf, ok |-> ok]
BulkIn(data, ok) == [op |-> "bulk", ep |-> EP_IN, data |-> data, ok |-> ok]

\* lines 306-307 and the like: a failed transfer is reported on stdout
report(out, ok) == IF ok THEN out ELSE Append(out, <<"error">>)

\* the mutation for C9: a failed transfer skips the rest of the action
after_transfer_abort(ok, next) == IF ok THEN next ELSE "cleanup"

\* where main goes on after a transfer with result ok: to the next statement
after_transfer(ok, next) == next

\* ------------------------------------------------------------ the actions
\* lines 293-308
SetDeviceId ==
    /\ pc = "action"
    /\ action = "i"
    /\ \E ok \in BOOLEAN :
        /\ pkt' = set_device_id_pkt(pkt, device_id)
        /\ usb' = Append(usb, BulkOut(pkt', ok))
        /\ stdout' = report(stdout, ok)
        /\ Running(after_transfer(ok, "cleanup"))
    /\ UNCHANGED << host, devices, nopts, opt, optarg, last_flag, serial_arg, action,
                    device_idx, device_id, serial_nr, device, dev_handle, open_handles,
                    claimed, stderr >>

\* lines 310-327
SetSerial ==
    /\ pc = "action"
    /\ action = "s"
    /\ \E ok \in BOOLEAN :
        /\ serial_nr' = serial_to_wire(host, serial_nr)
        /\ pkt' = set_serial_pkt(host, pkt, serial_nr')
        /\ usb' = Append(usb, BulkOut(pkt', ok))
        /\ stdout' = report(stdout, ok)
        /\ Running(after_transfer(ok, "cleanup"))
    /\ UNCHANGED << host, devices, nopts, opt, optarg, last_flag, serial_arg, action,
                    device_idx, device_id, device, dev_handle, open_handles, claimed,
                    stderr >>

\* lines 329-347: request the device id
QueryIdRequest ==
    /\ pc = "action"
    /\ action = "q"
    /\ \E ok \in BOOLEAN :
        /\ pkt' = get_pkt(pkt, 4)
        /\ usb' = Append(usb, BulkOut(pkt', ok))
        /\ stdout' = report(stdout, ok)
        /\ Running(after_transfer(ok, "q_id_in"))
    /\ UNCHANGED << host, devices, nopts, opt, optarg, last_flag, serial_arg, action,
                    device_idx, device_id, serial_nr, device, dev_handle, open_handles,
                    claimed, stderr >>

\* what an IN transfer leaves in the buffer: the whole answer when it succeeds,
\* at most MaxPartial bytes of it when it fails
Received(buf, ok) ==
    { SubSeq(r, 1, n) : r \in Responses(buf),
                        n \in IF ok THEN {PktLen} ELSE 0..MaxPartial }

\* lines 349-361: read the answer, print the device id
QueryIdResponse ==
    /\ pc = "q_id_in"
    /\ \E ok \in BOOLEAN : \E data \in Received(pkt, ok) :
        /\ pkt' = store(pkt, 0, data)
        /\ usb' = Append(usb, BulkIn(data, ok))
        /\ device_id' = decode_device_id(pkt')
        /\ stdout' = Append(report(stdout, ok), <<"device_id", device_id'>>)
        /\ Running(after_transfer(ok, "q_serial_out"))
    /\ UNCHANGED << host, devices, nopts, opt, optarg, last_flag, serial_arg, action,
                    device_idx, serial_nr, device, dev_handle, open_handles, claimed,
                    stderr >>

\* lines 365-382: request the serial number
QuerySerialRequest ==
    /\ pc = "q_serial_out"
    /\ \E ok \in BOOLEAN :
        /\ pkt' = get_pkt(pkt, 6)
        /\ usb' = Append(usb, BulkOut(pkt', ok))
        /\ stdout' = report(stdout, ok)
        /\ Running(after_transfer(ok, "q_serial_in"))
    /\ UNCHANGED << host, devices, nopts, opt, optarg, last_flag, serial_arg, action,
                    device_idx, device_id, serial_nr, device, dev_handle, open_handles,
                    claimed, stderr >>

\* lines 384-399: read the answer, print the serial number
QuerySerialResponse ==
    /\ pc = "q_serial_in"
    /\ \E ok \in BOOLEAN : \E data \in Received(pkt, ok) :
        /\ pkt' = store(pkt, 0, data)
        /\ usb' = Append(usb, BulkIn(data, ok))
        /\ serial_nr' = decode_serial(host, pkt')
        /\ stdout' = Append(report(stdout, ok), <<"serial_number", serial_nr'>>)
        /\ Running(after_transfer(ok, "cleanup"))
    /\ UNCHANGED << host, devices, nopts, opt, optarg, last_flag, serial_arg, action,
                    device_idx, device_id, device, dev_handle, open_handles, claimed,
                    stderr >>

\* lines 401-410: release the interface, close the handle, fall off the end of main
Cleanup ==
    /\ pc = "cleanup"
    /\ usb' = usb \o << [op |-> "release", ok |-> 0 \in claimed] >>
                  \o (IF dev_handle # 0 THEN << [op |-> "close", dev |-> dev_handle, ok |-> TRUE] >>
                      ELSE <<>>)
                  \o << [op |-> "exit", ok |-> TRUE] >>
    /\ claimed' = claimed \ {0}
    /\ open_handles' = IF dev_handle # 0 THEN open_handles \ {dev_handle} ELSE open_handles
    /\ Exit(410, 0)
    /\ UNCHANGED << host, devices, nopts, opt, optarg, last_flag, serial_arg, action,
                    device_idx, device_id, serial_nr, pkt, device, dev_handle, stdout,
                    stderr >>

Next ==
    \/ Getopt
    \/ GetoptEnd
    \/ LibusbInit
    \/ BrowseDevices
    \/ ClaimInterface
    \/ GetDescriptors
    \/ SetDeviceId
    \/ SetSerial
    \/ QueryIdRequest
    \/ QueryIdResponse
    \/ QuerySerialRequest
    \/ QuerySerialResponse
    \/ Cleanup

Spec == Init /\ [][Next]_vars

\* --------------------------------------------- serial number round trip
\* bytes the serial numbers of the round trip are built from
SampleBytes == {0, 1, 2, 3, 4, 255}

\* the program at line 310 with action 's' and an arbitrary serial_nr
RoundTripInit ==
    /\ host \in {"little", "big"}
    /\ serial_nr \in [1..4 -> SampleBytes]
    /\ serial_arg = serial_nr
    /\ devices = << CHOOSE d \in DeviceKinds : supported(d) # 0 >>
    /\ pc = "action"
    /\ exit_status = -1
    /\ exit_line = 0
    /\ nopts = 1
    /\ opt = "s"
    /\ optarg = NoArg
    /\ last_flag = "s"
    /\ action = "s"
    /\ device_idx = Zeros(4)
    /\ device_id = UNINIT
    /\ pkt = UNINIT
    /\ device = 1
    /\ dev_handle = 1
    /\ open_handles = {1}
    /\ claimed = {0}
    /\ usb = <<>>
    /\ stdout = <<>>
    /\ stderr = <<>>

\* lines 311-323 with a transfer that succeeds; the device keeps the payload
RoundTripSet ==
    /\ pc = "action"
    /\ serial_nr' = serial_to_wire(host, serial_nr)
    /\ pkt' = set_serial_pkt(host, pkt, serial_nr')
    /\ usb' = Append(usb, BulkOut(pkt', TRUE))
    /\ Running("q_serial_out")
    /\ UNCHANGED << host, devices, nopts, opt, optarg, last_flag, serial_arg, action,
                    device_idx, device_id, device, dev_handle, open_handles, claimed,
                    stdout, stderr >>

\* lines 369-398 of a later query: the device answers with the payload it was sent
RoundTripQuery ==
    /\ pc = "q_serial_out"
    /\ LET sent == usb[Len(usb)].data
           req == get_pkt(pkt, 6)
           answer == store(req, 2, SubSeq(sent, 3, 6))
       IN  /\ pkt' = store(req, 0, answer)
           /\ usb' = usb \o << BulkOut(req, TRUE), BulkIn(answer, TRUE) >>
           /\ serial_nr' = decode_serial(host, pkt')
           /\ stdout' = Append(stdout, <<"serial_number", serial_nr'>>)
    /\ Running("cleanup")
    /\ UNCHANGED << host, devices, nopts, opt, optarg, last_flag, serial_arg, action,
                    device_idx, device_id, device, dev_handle, open_handles, claimed,
                    stderr >>

RoundTripNext == RoundTripSet \/ RoundTripQuery

RoundTripSpec == RoundTripInit /\ [][RoundTripNext]_vars
\* ------------------------------------------------------------ observers
Bulk == SelectSeq(usb, LAMBDA e : e.op = "bulk")
Outs == SelectSeq(Bulk, LAMBDA e : e.ep = EP_OUT)
\* the libusb_open calls that gave a handle
Opens == SelectSeq(usb, LAMBDA e : e.op = "open" /\ e.ok)
\* handles opened, interfaces claimed, devices reset, transfers made
Touched == SelectSeq(usb, LAMBDA e : e.op \in {"claim", "reset", "bulk"} \/ (e.op = "open" /\ e.ok))
ListLines == SelectSeq(stdout, LAMBDA l : l[1] = "list")
ValueLines == SelectSeq(stdout, LAMBDA l : l[1] \in {"device_id", "serial_number"})
ErrorLines == SelectSeq(stdout, LAMBDA l : l[1] = "error")
Failed == SelectSeq(Bulk, LAMBDA e : ~e.ok)
\* browse_devices has got the device list
Browsed == \E k \in 1..Len(usb) : usb[k].op = "get_device_list" /\ usb[k].ok
Said(msg) == \E k \in 1..Len(stderr) : stderr[k] = msg

\* positions of the devices that are in the catalog, in enumeration order
Matched == SelectSeq([c \in 1..Len(devices) |-> c], LAMBDA c : supported(devices[c]) # 0)
\* the number a matched device at position c gets: matched devices before it
Rank(c) == Cardinality({ k \in 1..Len(Matched) : Matched[k] < c })

AtEnd == pc = "cleanup" \/ (pc = "exited" /\ exit_line = 410)
\* endpoints of the transfers of an action, in program order
Endpoints(a) == IF a = "q" THEN <<EP_OUT, EP_IN, EP_OUT, EP_IN>> ELSE <<EP_OUT>>
\* transfers the program has got past at its current position
Attempted ==
    CASE AtEnd -> Len(Endpoints(action))
      [] pc = "q_id_in" -> 1
      [] pc = "q_serial_out" -> 2
      [] pc = "q_serial_in" -> 3
      [] OTHER -> 0

ByteOr0(d, i) == IF i <= Len(d) THEN d[i] ELSE 0

\* ---------------------------------------------------------------- claims
\* C1 (as claimed): an argument n of -i that the parser accepts selects
\* set-device-id with device id n exactly if 0 <= n <= 255; a rejected one gives
\* a message on standard error and exit status 1 before any USB operation.
C1_DeviceIdRange ==
    (opt = "i" /\ parse_long(optarg).ret = 0) =>
        LET n == parse_long(optarg).val
            goes_on == /\ action = "i"
                       /\ exit_line \notin {209, 213}
                       /\ Resize(device_id, 8) = n
            in_range == \A k \in 2..8 : n[k] = 0
        IN  /\ goes_on <=> in_range
            /\ ~goes_on => (exit_status = 1 /\ stderr # <<>> /\ usb = <<>>)

\* C2 (as claimed): a device that is opened for a non-list action is the matched
\* device whose number is the 32-bit index given with -d; if there is no such
\* device nothing is opened, claimed or transferred and the program exits with
\* status 1 and the device-not-found message.
C2_IndexSelection ==
    (action # "l" /\ Browsed) =>
        /\ \A k \in 1..Len(Opens) : ToDigits(Rank(Opens[k].dev), 4) = device_idx
        /\ (~\E j \in 0..(Len(Matched) - 1) : ToDigits(j, 4) = device_idx) =>
                /\ Touched = <<>>
                /\ pc = "exited" /\ exit_status = 1
                /\ Said("error, requested device not found")

\* C3 (transfers): at every position of action -q the transfers made so far are
\* the first ones of OUT{4,1}, IN, OUT{6,1}, IN.
C3_Transfers ==
    LET bulk == Bulk IN
    /\ Len(bulk) = Attempted
    /\ \A k \in 1..Len(bulk) : bulk[k].ep = Endpoints("q")[k]
    /\ Len(bulk) >= 1 => bulk[1].data = store(Zeros(PktLen), 0, <<4, 1>>)
    /\ Len(bulk) >= 3 => bulk[3].data = store(Zeros(PktLen), 0, <<6, 1>>)
    /\ Len(ValueLines) = Len(bulk) \div 2

\* C3 (as claimed): whatever the result of each transfer, device_id is byte 2 of
\* the first response packet and serial_number bytes 2..5 of the second one,
\* little-endian, and nothing else.
C3_FromResponseOnly ==
    (action = "q" /\ pc # "getopt") =>
        /\ C3_Transfers
        /\ Len(Bulk) >= 2 =>
                /\ Len(Bulk[2].data) >= 3
                /\ ValueLines[1] = <<"device_id", <<Bulk[2].data[3]>> >>
        /\ Len(Bulk) >= 4 =>
                /\ Len(Bulk[4].data) >= 6
                /\ ValueLines[2] = <<"serial_number", SubSeq(Bulk[4].data, 3, 6)>>

\* C3 (amended): action -q makes exactly the transfers OUT{4,1}, IN, OUT{6,1}, IN
\* in this order and prints exactly two value lines; device_id is byte 2 and
\* serial_number bytes 2..5 (little-endian) of the packet buffer after the IN
\* transfer, where each byte is the response byte if the transfer stored it and
\* otherwise the zero of the cleared request packet.
C3_FromBufferAfterResponse ==
    (action = "q" /\ pc # "getopt") =>
        LET bulk == Bulk
            lines == ValueLines
        IN  /\ C3_Transfers
            /\ Len(bulk) >= 2 =>
                    lines[1] = <<"device_id", <<ByteOr0(bulk[2].data, 3)>> >>
            /\ Len(bulk) >= 4 =>
                    lines[2] = <<"serial_number", [j \in 1..4 |-> ByteOr0(bulk[4].data, 2 + j)]>>

\* a finished query whose first IN transfer failed before byte 2 arrived and
\* whose second IN transfer delivered the serial number 0x01020304
C3_Witness ==
    /\ action = "q" /\ pc = "exited" /\ exit_line = 410
    /\ host = "big"
    /\ ~Bulk[2].ok /\ Len(Bulk[2].data) = 2
    /\ Bulk[4].ok /\ SubSeq(Bulk[4].data, 3, 6) = <<4, 3, 2, 1>>
    /\ ValueLines = << <<"device_id", <<0>> >>, <<"serial_number", <<4, 3, 2, 1>> >> >>

\* C4: set-serial writes v into packet bytes 2..5 least significant byte first
\* on either host byte order, and the query decoding of those four bytes gives
\* v again.
C4_SerialRoundTrip ==
    /\ pc = "q_serial_out" => SubSeq(usb[Len(usb)].data, 3, 6) = serial_arg
    /\ pc = "cleanup" =>
            /\ SubSeq(usb[1].data, 3, 6) = serial_arg
            /\ SubSeq(pkt, 3, 6) = SubSeq(usb[1].data, 3, 6)
            /\ serial_nr = serial_arg

\* v = 0x01020304 on a big-endian build: bytes 04 03 02 01, decoded to v
C4_Witness ==
    /\ pc = "cleanup" /\ host = "big"
    /\ serial_arg = <<4, 3, 2, 1>>
    /\ SubSeq(usb[1].data, 3, 6) = <<4, 3, 2, 1>>
    /\ serial_nr = <<4, 3, 2, 1>>

\* C5 (as claimed): when the process has terminated every handle is closed and
\* every interface released; never more than one handle or interface is held.
C5_ReleasedOnExit ==
    /\ pc = "exited" => (open_handles = {} /\ claimed = {})
    /\ Cardinality(open_handles) <= 1
    /\ Cardinality(claimed) <= 1

\* C6: every transfer and every listing or value line belongs to the action
\* named by the last of -i, -s, -l, -q; with none of them the program makes no
\* USB call, prints the usage text to standard error and exits with status 1.
C6_LastFlagWins ==
    LET outs == Outs IN
    /\ \A k \in 1..Len(outs) :
            <<outs[k].data[1], outs[k].data[2]>> \in
                CASE last_flag = "i" -> { <<4, 2>> }
                  [] last_flag = "s" -> { <<6, 2>> }
                  [] last_flag = "q" -> { <<4, 1>>, <<6, 1>> }
                  [] OTHER -> {}
    /\ Len(Bulk) <= Len(Endpoints(last_flag))
    /\ ListLines # <<>> => last_flag = "l"
    /\ ValueLines # <<>> => last_flag = "q"
    /\ last_flag = "0" =>
            /\ usb = <<>>
            /\ pc \in {"getopt", "exited"}
            /\ (pc = "exited" /\ exit_line \notin {195, 198, 228}) =>
                    (exit_line = 235 /\ exit_status = 1 /\ Said("usage"))

\* -s 0x01020304 -q on the command line: the query ran, nothing was set
C6_Witness ==
    /\ nopts = 2 /\ last_flag = "q" /\ serial_arg # UNINIT
    /\ pc = "exited" /\ exit_line = 410
    /\ Len(Bulk) = 4

\* C7: every packet given to an OUT transfer is 16 bytes: object type, operation,
\* the payload of a set operation (the device id, or the serial number as given)
\* and zeros after it.
C7_PacketInvariant ==
    LET outs == Outs IN
    \A k \in 1..Len(outs) :
        LET d == outs[k].data
            n == IF d[2] = 1 THEN 0 ELSE IF d[1] = 4 THEN 1 ELSE 4
        IN  /\ Len(d) = PktLen
            /\ <<d[1], d[2]>> \in { <<4, 1>>, <<4, 2>>, <<6, 1>>, <<6, 2>> }
            /\ \A i \in (3 + n)..PktLen : d[i] = 0
            /\ <<d[1], d[2]>> = <<4, 2>> => <<d[3]>> = device_id
            /\ <<d[1], d[2]>> = <<6, 2>> => SubSeq(d, 3, 6) = serial_arg

\* the serial-number request of a query, sent after a complete answer to the
\* device-id request had filled the buffer
C7_Witness ==
    /\ pc = "q_serial_in"
    /\ Bulk[2].ok /\ SubSeq(Bulk[2].data, 3, 6) = <<42, 9, 9, 9>>
    /\ Bulk[3].data = store(Zeros(PktLen), 0, <<6, 1>>)

\* C8 (as claimed): with -l as the action one line is printed per matched device
\* and no device is opened, claimed, reset or given a transfer.
C8_ListTouchesNothing ==
    (action = "l" /\ Browsed) =>
        /\ Touched = <<>>
        /\ open_handles = {}
        /\ ~Said("failed to get device descriptor") =>
                Len(ListLines) = Len(Matched)

\* C9: whatever the results of its transfers, a set or query action makes all
\* of them in order, reports each failure, then releases the interface, closes
\* the handle and leaves through the end of main.
C9_TransferFailureNotFatal ==
    action \in {"i", "s", "q"} =>
        LET bulk == Bulk
            n == Len(usb)
        IN  /\ Len(bulk) = Attempted
            /\ \A k \in 1..Len(bulk) : bulk[k].ep = Endpoints(action)[k]
            /\ Len(ErrorLines) = Len(SelectSeq(bulk, LAMBDA e : ~e.ok))
            /\ (pc = "exited" /\ bulk # <<>>) =>
                    /\ exit_line = 410 /\ exit_status = 0
                    /\ claimed = {} /\ open_handles = {}
                    /\ SubSeq(usb, n - 2, n) =
                            << [op |-> "release", ok |-> usb[n - 2].ok],
                               [op |-> "close", dev |-> dev_handle, ok |-> TRUE],
                               [op |-> "exit", ok |-> TRUE] >>

\* a query in which all four transfers failed and that ended at line 410
C9_Witness ==
    /\ action = "q" /\ pc = "exited" /\ exit_line = 410
    /\ Len(Bulk) = 4 /\ Len(Failed) = 4 /\ Len(ErrorLines) = 4
    /\ open_handles = {} /\ claimed = {}

\* C10 (as claimed): after the listing the program exits with status 0 exactly if
\* a matched device has the number given with -d and was opened; otherwise it
\* exits with status 1 and the device-not-found message.
C10_ListExitStatus ==
    (action = "l" /\ pc = "exited" /\ exit_line \in {255, 259}) =>
        /\ exit_status = 0 <=>
                \E k \in 1..Len(Opens) :
                    ToDigits(Rank(Opens[k].dev), 4) = device_idx
        /\ exit_status # 0 =>
                (exit_status = 1 /\ Said("error, requested device not found"))
====
